---------------------------- MODULE Spec2Model ----------------------------
(***************************************************************************)
(* A model of python_sdk/splinepath.py: construction of a SplinePath from  *)
(* a waypoint sequence (arc-length indexing, min_grid resampling, the      *)
(* quadratic interpolants), the path property of PathBase,                 *)
(* SplinePath.project (bracket expansion, root search, boundary fallback,  *)
(* signed offset), path_error, the queries p, x, y, c and sample, and two  *)
(* callers of project running concurrently; and of                         *)
(* python_sdk/lilsim/client.py: the threads of LilsimClient (start, stop,  *)
(* the state listener, the control responder) and the admin exchanges on   *)
(* its REQ socket.                                                         *)
(*                                                                         *)
(* Numbers.  Arc lengths, ds, s_lim and waypoint coordinates are integers. *)
(* Waypoint sequences are drawn so that every chord length is an integer,  *)
(* hence the cumulative arc lengths si are exact.  With three knots        *)
(* 0 < s1 < s2 scipy's quadratic interp1d is the single parabola through   *)
(* the three knots; fx(s) = Num(x, s) / Den, fy(s) = Num(y, s) / Den and   *)
(* the derivatives are DNum(., s) / Den, all with integer numerators.      *)
(* Query points are stored scaled by Den (the variable p holds p * Den),   *)
(* so that a point lying on the path is represented exactly.               *)
(***************************************************************************)
EXTENDS Integers, Sequences, FiniteSets, TLC

VARIABLES
    points,     \* the waypoint sequence handed to SplinePath(...)
    min_grid,   \* Optional[float]: << >> is None, <<g>> is the value g
    st,         \* "new" before construction, then "built" or "failed"
    si_idx,     \* the retained indices (1-based) chosen in __init__
    path,       \* PathBase._path: the retained knot points
    fxy,        \* the ordinates points[si_idx] that fx and fy were built from
    si,         \* the knot arc lengths si[si_idx]
    length,     \* self.length
    err,        \* the exception that ended the last operation, or "none"
    pc,         \* project: "idle", "loop", "done" or "raised"
    p,          \* project: the query point, scaled by Den
    s0,         \* project: the seed
    ds,         \* project: the expansion step
    s_lim,      \* project: the search limit
    verbose,    \* project: the verbose argument
    smin,       \* project: lower bracket end
    smax,       \* project: upper bracket end
    cnt,        \* project: number of expansions made
    branch,     \* project: "none", "root" (brenth) or "fallback"
    warned,     \* project: whether warnings.warn was called
    result,     \* project: the returned tuple, << >> while there is none
    pe,         \* path_error: "idle", "run", "done" or "raised"
    w,          \* path_error: the trajectory
    d,          \* path_error: the array d
    calls,      \* path_error: the (p_car, s0) of the project calls made so far
    rets,       \* path_error: the tuples those calls returned
    t2,         \* the locals of a second, concurrent caller of project
    qry,        \* the last call of sample, p, x, y or c: its name and arguments
    ans,        \* what that call returned or raised
    nfail,      \* whether a call of p, x or y on this path has raised
    running,                \* LilsimClient.running
    control_dealer,         \* whether control_dealer is a socket (not None)
    sync_controller,        \* whether a sync controller is registered
    metadata,               \* 0 for None, else metadata.schema_version
    last_control_vector,    \* LilsimClient.last_control_vector
    state_threads,          \* the listener threads created: where each is
    control_threads,        \* the responder threads created: where each is
    main,                   \* the caller's thread: where it is
    admin_req,              \* the REQ socket: requests in flight, threads
                            \* in recv, whether a send was refused
    requests,               \* the ControlRequests sent by the simulator
    last_sent               \* the vector of the last non-heartbeat reply

buildVars == <<points, min_grid, st, si_idx, path, fxy, si, length>>
callVars == <<pc, p, s0, ds, s_lim, verbose, smin, smax, cnt, branch, warned, result>>
peVars == <<pe, w, d, calls, rets>>
qVars == <<qry, ans, nfail>>
clVars == <<running, control_dealer, sync_controller, metadata,
            last_control_vector, state_threads, control_threads, main,
            admin_req, requests, last_sent>>
restVars == <<t2, qVars, clVars>>
otherVars == <<peVars, restVars>>
vars == <<buildVars, err, callVars, otherVars>>

---------------------------------------------------------------------------
(* Bounds of the model.                                                    *)

MaxPts == 4         \* waypoint sequences of 1..MaxPts points
MaxStep == 1        \* each coordinate of a chord is in -MaxStep..MaxStep
MaxGrid == 3        \* min_grid is None or in 0..MaxGrid

---------------------------------------------------------------------------
(* Integer helpers.                                                        *)

ISqrt(n) == CHOOSE r \in 0..n : r * r <= n /\ (r + 1) * (r + 1) > n

IsSquare(n) == ISqrt(n) * ISqrt(n) = n

Max2(a, b) == IF a >= b THEN a ELSE b

Min2(a, b) == IF a <= b THEN a ELSE b

SeqMax(s) == CHOOSE m \in {s[i] : i \in 1..Len(s)} : \A i \in 1..Len(s) : s[i] <= m

---------------------------------------------------------------------------
(* SplinePath.__init__                                                     *)

\* np.sqrt(np.sum(np.diff(points)**2, axis=1)) for one chord (exact: the
\* inputs are drawn with integer chord lengths)
Chord(a, b) == ISqrt((b[1] - a[1]) * (b[1] - a[1]) + (b[2] - a[2]) * (b[2] - a[2]))

\* si = np.hstack(([0], np.cumsum(chords)))
RECURSIVE CumLen(_, _)
CumLen(pts, k) ==
    IF k = 1 THEN 0 ELSE CumLen(pts, k - 1) + Chord(pts[k - 1], pts[k])

ArcLengths(pts) == [k \in 1..Len(pts) |-> CumLen(pts, k)]

\* the for loop of lines 67-69, from index k on, with the indices kept so far
RECURSIVE Resample(_, _, _, _)
Resample(s, g, k, idx) ==
    IF k > Len(s) THEN idx
    ELSE Resample(s, g, k + 1,
                  IF s[k] - s[idx[Len(idx)]] >= g THEN Append(idx, k) ELSE idx)

\* (mutant) the last grid point is not forced in
ForceLast_skipped(s, idx) == idx

\* lines 70-71: always include the last grid point
ForceLast(s, idx) ==
    IF s[idx[Len(idx)]] # s[Len(s)] THEN Append(idx, Len(s)) ELSE idx

\* si_idx of lines 65-74
SelectIdx(s, mg) ==
    IF mg # << >> THEN ForceLast(s, Resample(s, mg[1], 1, <<1>>))
    ELSE [k \in 1..Len(s) |-> k]

\* (mutant) duplicate abscissae are accepted
interp1d_ok_dups(x) == Len(x) >= 3

\* interp1d(x, y, kind='quadratic') accepts x: at least order + 1 = 3
\* entries, and no duplicates among the (sorted) abscissae
interp1d_ok(x) ==
    /\ Len(x) >= 3
    /\ \A i \in 1..(Len(x) - 1) : x[i] < x[i + 1]

\* (mutant) the length is the length of the polyline of the retained
\* knots instead of the last cumulative arc length
Construct_polyline ==
    /\ st = "new"
    /\ LET s == ArcLengths(points)
           idx == SelectIdx(s, min_grid)
           knots == [i \in 1..Len(idx) |-> points[idx[i]]]
           sk == [i \in 1..Len(idx) |-> s[idx[i]]]
       IN  /\ si_idx' = idx
           /\ path' = knots
           /\ fxy' = knots
           /\ si' = sk
           /\ length' = CumLen(knots, Len(knots))
           /\ IF interp1d_ok(sk)
              THEN st' = "built" /\ err' = "none"
              ELSE st' = "failed" /\ err' = "ValueError"
    /\ UNCHANGED <<points, min_grid, callVars, otherVars>>

Construct ==
    /\ st = "new"
    /\ LET s == ArcLengths(points)
           idx == SelectIdx(s, min_grid)
           knots == [i \in 1..Len(idx) |-> points[idx[i]]]
           sk == [i \in 1..Len(idx) |-> s[idx[i]]]
       IN  /\ si_idx' = idx
           /\ path' = knots
           /\ fxy' = knots
           /\ si' = sk
           /\ length' = SeqMax(sk)    \* line 78 replaces PathBase's length
           /\ IF interp1d_ok(sk)
              THEN st' = "built" /\ err' = "none"
              ELSE st' = "failed" /\ err' = "ValueError"
    /\ UNCHANGED <<points, min_grid, callVars, otherVars>>

---------------------------------------------------------------------------
(* PathBase: the path property and the length it keeps.                    *)

\* np.sum of the norms of path[0:-2] - path[1:-1]: the chords from point k
\* to point k + 1 for k = 1 .. n - 2
RECURSIVE SumChords(_, _)
SumChords(pts, k) ==
    IF k < 1 THEN 0 ELSE SumChords(pts, k - 1) + Chord(pts[k], pts[k + 1])

\* PathBase._computelength
computelength(pts) == SumChords(pts, Len(pts) - 2)

\* the setter of the path property, on a constructed SplinePath: PathBase
\* stores the new points and recomputes its length; fx, fy and the other
\* interpolants are attributes of SplinePath that the setter does not touch
SetPath(new) ==
    /\ st = "built"
    /\ pc = "idle" /\ pe = "idle"
    /\ path' = new
    /\ length' = computelength(new)
    /\ UNCHANGED <<points, min_grid, st, si_idx, fxy, si, err, callVars,
                   otherVars>>

---------------------------------------------------------------------------
(* Inputs of the construction.                                             *)

Moves ==
    {m \in (-MaxStep..MaxStep) \X (-MaxStep..MaxStep) :
        IsSquare(m[1] * m[1] + m[2] * m[2])}

RECURSIVE WaypointSeqs(_)
WaypointSeqs(n) ==
    IF n = 1 THEN {<< <<0, 0>> >>}
    ELSE {Append(ws, <<ws[n - 1][1] + m[1], ws[n - 1][2] + m[2]>>) :
             ws \in WaypointSeqs(n - 1), m \in Moves}

AllWaypointSeqs == UNION {WaypointSeqs(n) : n \in 1..MaxPts}

GridChoices == {<< >>} \cup {<<g>> : g \in 0..MaxGrid}

IdleCall ==
    /\ pc = "idle" /\ p = <<0, 0>> /\ s0 = 0 /\ ds = 1 /\ s_lim = 0
    /\ verbose = FALSE /\ smin = 0 /\ smax = 0 /\ cnt = 0
    /\ branch = "none" /\ warned = FALSE /\ result = << >>

\* the locals of a caller that is not inside project
IdleLocal ==
    [pc |-> "idle", p |-> <<0, 0>>, s0 |-> 0, ds |-> 1, s_lim |-> 0,
     smin |-> 0, smax |-> 0, cnt |-> 0, result |-> << >>, err |-> "none"]

\* no query made yet
NoQuery ==
    /\ qry = [op |-> "none", a |-> << >>, b |-> << >>]
    /\ ans = [st |-> "none", val |-> << >>, err |-> "none"]
    /\ nfail = FALSE

\* LilsimClient.__init__ followed by connect(): no thread, no metadata
NewClient ==
    /\ running = FALSE /\ control_dealer = FALSE /\ sync_controller = FALSE
    /\ metadata = 0 /\ last_control_vector = << >>
    /\ state_threads = << >> /\ control_threads = << >>
    /\ main = [pc |-> "idle", cmd |-> "none"]
    /\ admin_req = [inflight |-> << >>, waiting |-> {}, refused |-> FALSE]
    /\ requests = << >>
    /\ last_sent = [some |-> FALSE, v |-> << >>]

IdlePathError ==
    pe = "idle" /\ w = << >> /\ d = << >> /\ calls = << >> /\ rets = << >>

NewObject ==
    /\ st = "new" /\ si_idx = << >> /\ path = << >> /\ fxy = << >>
    /\ si = << >>
    /\ length = 0 /\ err = "none"

InitBuild ==
    /\ points \in AllWaypointSeqs
    /\ min_grid \in GridChoices
    /\ NewObject
    /\ IdleCall
    /\ IdlePathError
    /\ t2 = IdleLocal
    /\ NoQuery
    /\ NewClient

SpecBuild == InitBuild /\ [][Construct]_vars

---------------------------------------------------------------------------
(* The interpolants of a built three-knot path (lines 80-86).              *)

\* common denominator of the parabola through the knots 0, si[2], si[3]
Den == si[2] * si[3] * (si[3] - si[2])

\* Den * fx(s) for c = 1, Den * fy(s) for c = 2
Num(c, s) ==
    fxy[1][c] * (s - si[2]) * (s - si[3]) * (si[3] - si[2])
    - fxy[2][c] * s * (s - si[3]) * si[3]
    + fxy[3][c] * s * (s - si[2]) * si[2]

\* Den * dfx(s) for c = 1, Den * dfy(s) for c = 2
DNum(c, s) ==
    fxy[1][c] * (2 * s - si[2] - si[3]) * (si[3] - si[2])
    - fxy[2][c] * (2 * s - si[3]) * si[3]
    + fxy[3][c] * (2 * s - si[2]) * si[2]

\* (mutant) fx and fy extrapolate instead of raising
InDomain_extrapolating(s) == TRUE

\* fx and fy are built with the default bounds_error: evaluating them
\* outside [si[0], si[-1]] raises ValueError
InDomain(s) == si[1] <= s /\ s <= si[Len(si)]

\* SplinePath.p(s), scaled by Den
P(s) == <<Num(1, s), Num(2, s)>>

\* SplinePath.heading(s).  h = (dfx, dfy) / sqrt(h . h): the record keeps the
\* unnormalised direction h (Den * (dfx, dfy)) and n2 = h . h, the tangent
\* being h / sqrt(n2) and the normal nc / sqrt(n2); with n2 = 0 the
\* division 0 / 0 makes every component NaN.
heading(s) ==
    LET h == <<DNum(1, s), DNum(2, s)>>
    IN  [nan |-> (h[1] * h[1] + h[2] * h[2] = 0),
         h |-> h,
         nc |-> <<-h[2], h[1]>>,
         n2 |-> h[1] * h[1] + h[2] * h[2]]

Sgn(v) == IF v > 0 THEN 1 ELSE IF v < 0 THEN -1 ELSE 0

\* (mutant) the cross product of the tangent with the vector to q
s_fun_cross(q, s) ==
    LET hd == heading(s)
        dp == <<q[1] - P(s)[1], q[2] - P(s)[2]>>
    IN  [nan |-> hd.nan,
         num |-> hd.h[1] * dp[2] - hd.h[2] * dp[1]]

\* s_fun(si) of lines 178-182 for the query point q: the value is
\* num / (Den * sqrt(n2)) with Den > 0, so np.sign of it is Sgn(num), or NaN
s_fun(q, s) ==
    LET hd == heading(s)
        dp == <<q[1] - P(s)[1], q[2] - P(s)[2]>>
    IN  [nan |-> hd.nan,
         num |-> dp[1] * hd.nc[2] - dp[2] * hd.nc[1]]

\* np.sign(a) == np.sign(b): NaN equals nothing
SameSign(a, b) == ~a.nan /\ ~b.nan /\ Sgn(a.num) = Sgn(b.num)

\* (mutant) cnt <= cnt_lim
BelowLimit_inclusive(c, lim, step) ==
    IF step > 0 THEN c * step <= lim ELSE c * step >= lim

\* cnt < cnt_lim with cnt_lim = s_lim / ds a true division (ds # 0)
BelowLimit(c, lim, step) ==
    IF step > 0 THEN c * step < lim ELSE c * step > lim

\* (mutant) the operands of the cross product swapped
SignedOffset_swapped(q, s) ==
    LET hd == heading(s)
        dp == <<q[1] - P(s)[1], q[2] - P(s)[2]>>
    IN  [nan |-> hd.nan,
         num |-> dp[1] * hd.h[2] - dp[2] * hd.h[1],
         n2 |-> hd.n2]

\* np.cross(hi, dp) of line 208 at s for the query point q:
\* num / (Den * sqrt(n2)), NaN when the heading is NaN
SignedOffset(q, s) ==
    LET hd == heading(s)
        dp == <<q[1] - P(s)[1], q[2] - P(s)[2]>>
    IN  [nan |-> hd.nan,
         num |-> hd.h[1] * dp[2] - hd.h[2] * dp[1],
         n2 |-> hd.n2]

\* squared distance (times Den^2) between the query point q and p(s)
Dist2(q, s) ==
    (q[1] - P(s)[1]) * (q[1] - P(s)[1]) + (q[2] - P(s)[2]) * (q[2] - P(s)[2])

\* (mutant) the comparison reversed: the farther bracket end
Nearer_reversed(q, lo, hi) == IF Dist2(q, lo) > Dist2(q, hi) THEN lo ELSE hi

\* (mutant) always the lower bracket end
Nearer_lower(q, lo, hi) == lo

\* lines 199-204: the nearer bracket end, smax on a tie
Nearer(q, lo, hi) == IF Dist2(q, lo) < Dist2(q, hi) THEN lo ELSE hi

---------------------------------------------------------------------------
(* brenth(s_fun, a, b).  It returns a at once when f(a) = 0 and b when     *)
(* f(b) = 0; otherwise it converges, inside the bracket, to a point where  *)
(* f vanishes or changes sign.  Arc lengths being integers here, such a    *)
(* point is a grid point with f = 0, or one of two neighbouring grid       *)
(* points (neighbouring over a NaN point, if any) with opposite signs of   *)
(* f: the grid step is the solver's tolerance.  scipy raises ValueError    *)
(* when f is NaN at a point the solver evaluates.                          *)

Lo(a, b) == Min2(a, b)

Hi(a, b) == Max2(a, b)

\* the next grid point after s, inside the bracket, where f is a number
NextDefined(q, s, hi) ==
    IF s + 1 <= hi /\ ~s_fun(q, s + 1).nan THEN s + 1
    ELSE IF s + 2 <= hi /\ ~s_fun(q, s + 2).nan THEN s + 2
    ELSE s

SignChangeAt(q, s, hi) ==
    /\ ~s_fun(q, s).nan
    /\ NextDefined(q, s, hi) # s
    /\ Sgn(s_fun(q, s).num) * Sgn(s_fun(q, NextDefined(q, s, hi)).num) = -1

BrentRoots(q, a, b) ==
    IF s_fun(q, a).num = 0 THEN {a}
    ELSE IF s_fun(q, b).num = 0 THEN {b}
    ELSE {s \in Lo(a, b)..Hi(a, b) : ~s_fun(q, s).nan /\ s_fun(q, s).num = 0}
         \cup {s \in Lo(a, b)..Hi(a, b) : SignChangeAt(q, s, Hi(a, b))}
         \cup {NextDefined(q, s, Hi(a, b)) :
                  s \in {t \in Lo(a, b)..Hi(a, b) : SignChangeAt(q, t, Hi(a, b))}}

\* the solver may meet a NaN value of f: surely at an end, possibly inside
BrentNaNSure(q, a, b) == s_fun(q, a).nan \/ s_fun(q, b).nan

BrentNaNPossible(q, a, b) == \E s \in Lo(a, b)..Hi(a, b) : s_fun(q, s).nan

---------------------------------------------------------------------------
(* SplinePath.project                                                      *)

\* project is called on a constructed path; the interpolants above are
\* those of a path of three knots
Callable == st = "built" /\ Len(si) = 3 /\ pc = "idle" /\ pe = "idle"

\* lines 184-188: entering project, up to the first test of the loop
\* condition
EnterProject(q, seed, step, lim, vb) ==
    /\ p' = q /\ s0' = seed /\ ds' = step /\ s_lim' = lim /\ verbose' = vb
    /\ smin' = seed /\ smax' = seed /\ cnt' = 0
    /\ branch' = "none" /\ warned' = FALSE /\ result' = << >>
    /\ IF step = 0
       THEN pc' = "raised" /\ err' = "ZeroDivisionError"    \* s_lim / ds
       ELSE pc' = "loop" /\ err' = err

\* a call of project by the user of the path
ProjectCall(q, seed, step, lim, vb) ==
    /\ Callable
    /\ EnterProject(q, seed, step, lim, vb)
    /\ UNCHANGED <<buildVars, otherVars>>

\* the loop condition of line 189 evaluates s_fun(smin) and s_fun(smax),
\* which raise outside the domain of fx and fy
CondRaises == ~InDomain(smin) \/ ~InDomain(smax)

LoopCond ==
    /\ SameSign(s_fun(p, smin), s_fun(p, smax))
    /\ BelowLimit(cnt, s_lim, ds)

\* self.p(s) raises inside s_fun: project ends with ValueError
LoopRaise ==
    /\ pc = "loop"
    /\ CondRaises
    /\ pc' = "raised" /\ err' = "ValueError"
    /\ UNCHANGED <<buildVars, p, s0, ds, s_lim, verbose, smin, smax, cnt,
                   branch, warned, result, otherVars>>

\* (mutant) the bracket is widened without clamping it to [0, length]
Expand_unclamped ==
    /\ pc = "loop"
    /\ ~CondRaises
    /\ LoopCond
    /\ smin' = smin - ds
    /\ smax' = smax + ds
    /\ cnt' = cnt + 1
    /\ UNCHANGED <<buildVars, err, pc, p, s0, ds, s_lim, verbose,
                   branch, warned, result, otherVars>>

\* lines 190-192: one expansion of the bracket
Expand ==
    /\ pc = "loop"
    /\ ~CondRaises
    /\ LoopCond
    /\ smin' = Max2(0, smin - ds)
    /\ smax' = Min2(smax + ds, length)
    /\ cnt' = cnt + 1
    /\ UNCHANGED <<buildVars, err, pc, p, s0, ds, s_lim, verbose,
                   branch, warned, result, otherVars>>

\* line 194: the branch taken when the loop has ended
TakesRoot == BelowLimit(cnt, s_lim, ds)

\* lines 206-209
Return(s) == <<s, SignedOffset(p, s)>>

\* lines 194-195 and 206-209: brenth returns the root s
FinishRoot ==
    /\ pc = "loop"
    /\ ~CondRaises /\ ~LoopCond
    /\ TakesRoot
    /\ ~BrentNaNSure(p, smin, smax)
    /\ \E s \in BrentRoots(p, smin, smax) :
          /\ result' = Return(s)
          /\ branch' = "root"
          /\ pc' = "done"
    /\ UNCHANGED <<buildVars, err, p, s0, ds, s_lim, verbose, smin, smax, cnt,
                   warned, otherVars>>

\* line 195: brenth meets a NaN value of s_fun and raises ValueError
FinishRootRaise ==
    /\ pc = "loop"
    /\ ~CondRaises /\ ~LoopCond
    /\ TakesRoot
    /\ BrentNaNPossible(p, smin, smax)
    /\ pc' = "raised" /\ err' = "ValueError"
    /\ branch' = "root"
    /\ UNCHANGED <<buildVars, p, s0, ds, s_lim, verbose, smin, smax, cnt,
                   warned, result, otherVars>>

\* (mutant) the warning is issued whatever verbose is
FinishFallback_warns ==
    /\ pc = "loop"
    /\ ~CondRaises /\ ~LoopCond
    /\ ~TakesRoot
    /\ warned' = TRUE
    /\ result' = Return(Nearer(p, smin, smax))
    /\ branch' = "fallback"
    /\ pc' = "done"
    /\ UNCHANGED <<buildVars, err, p, s0, ds, s_lim, verbose, smin, smax, cnt,
                   otherVars>>

\* lines 196-209: the boundary fallback
FinishFallback ==
    /\ pc = "loop"
    /\ ~CondRaises /\ ~LoopCond
    /\ ~TakesRoot
    /\ warned' = verbose
    /\ result' = Return(Nearer(p, smin, smax))
    /\ branch' = "fallback"
    /\ pc' = "done"
    /\ UNCHANGED <<buildVars, err, p, s0, ds, s_lim, verbose, smin, smax, cnt,
                   otherVars>>

---------------------------------------------------------------------------
(* SplinePath.path_error                                                   *)

PathErrorDs == 1        \* ds=1 of line 228
PathErrorSLim == 20     \* s_lim=20 of line 228

\* an entry of np.zeros(N)
ZeroOffset == [nan |-> FALSE, num |-> 0, n2 |-> 1]

\* line 230: s0 = si, the seed of the next call
NextSeed(r) == r[1]

\* lines 223-228: the call, up to the first call of project
PathErrorCall(traj) ==
    /\ Callable
    /\ w' = traj
    /\ d' = [i \in 1..Len(traj) |-> ZeroOffset]
    /\ rets' = << >>
    /\ IF Len(traj) = 0
       THEN /\ pe' = "done"
            /\ calls' = << >>
            /\ UNCHANGED <<err, callVars>>
       ELSE /\ pe' = "run"
            /\ calls' = << <<traj[1], 0>> >>
            /\ EnterProject(traj[1], 0, PathErrorDs, PathErrorSLim, FALSE)
    /\ UNCHANGED <<buildVars, restVars>>

\* lines 228-230 when project has returned: d[k] = dk, s0 = si, and the
\* next round of the loop, or the return of d
PathErrorNext ==
    /\ pe = "run" /\ pc = "done"
    /\ d' = [d EXCEPT ![Len(calls)] = result[2]]
    /\ rets' = Append(rets, result)
    /\ IF Len(calls) < Len(w)
       THEN /\ pe' = "run"
            /\ calls' = Append(calls, <<w[Len(calls) + 1], NextSeed(result)>>)
            /\ EnterProject(w[Len(calls) + 1], NextSeed(result),
                            PathErrorDs, PathErrorSLim, FALSE)
       ELSE /\ pe' = "done"
            /\ calls' = calls
            /\ UNCHANGED <<err, callVars>>
    /\ UNCHANGED <<buildVars, w, restVars>>

\* project raised: the exception leaves path_error
PathErrorRaise ==
    /\ pe = "run" /\ pc = "raised"
    /\ pe' = "raised"
    /\ UNCHANGED <<buildVars, err, callVars, w, d, calls, rets, restVars>>

---------------------------------------------------------------------------
(* Concurrent callers.  The locals of project (lines 184-206) belong to    *)
(* the call; a second caller runs the same code on its own locals, held    *)
(* in the record t2, while the first runs the actions above.               *)

\* lines 184-188 on a record of locals
EnterLocal(q, seed, step, lim) ==
    [pc |-> IF step = 0 THEN "raised" ELSE "loop",
     p |-> q, s0 |-> seed, ds |-> step, s_lim |-> lim,
     smin |-> seed, smax |-> seed, cnt |-> 0, result |-> << >>,
     err |-> IF step = 0 THEN "ZeroDivisionError" ELSE "none"]

\* lines 189-209 on a record of locals: the records one step of the call
\* can lead to (several when brenth may return several grid points)
StepOf(l) ==
    IF ~InDomain(l.smin) \/ ~InDomain(l.smax)
    THEN {[l EXCEPT !.pc = "raised", !.err = "ValueError"]}
    ELSE IF /\ SameSign(s_fun(l.p, l.smin), s_fun(l.p, l.smax))
            /\ BelowLimit(l.cnt, l.s_lim, l.ds)
    THEN {[l EXCEPT !.smin = Max2(0, l.smin - l.ds),
                    !.smax = Min2(l.smax + l.ds, length),
                    !.cnt = l.cnt + 1]}
    ELSE IF BelowLimit(l.cnt, l.s_lim, l.ds)
    THEN {[l EXCEPT !.pc = "done", !.result = <<s, SignedOffset(l.p, s)>>] :
             s \in IF BrentNaNSure(l.p, l.smin, l.smax) THEN {}
                   ELSE BrentRoots(l.p, l.smin, l.smax)}
         \cup (IF BrentNaNPossible(l.p, l.smin, l.smax)
               THEN {[l EXCEPT !.pc = "raised", !.err = "ValueError"]}
               ELSE {})
    ELSE {[l EXCEPT !.pc = "done",
                    !.result = <<Nearer(l.p, l.smin, l.smax),
                                 SignedOffset(l.p, Nearer(l.p, l.smin, l.smax))>>]}

\* (mutant) the bracket is kept on the path object, where both callers
\* write it
Bracket2_shared == <<smin, smax>>

\* smin and smax are locals of the call
Bracket2 == <<t2.smin, t2.smax>>

\* the second caller enters project
Call2(q, seed, step, lim) ==
    /\ st = "built" /\ Len(si) = 3
    /\ t2.pc = "idle"
    /\ t2' = EnterLocal(q, seed, step, lim)
    /\ UNCHANGED <<buildVars, err, callVars, peVars, clVars, qVars>>

\* one step of the second caller
Step2 ==
    /\ t2.pc = "loop"
    /\ t2' \in StepOf([t2 EXCEPT !.smin = Bracket2[1], !.smax = Bracket2[2]])
    /\ UNCHANGED <<buildVars, err, callVars, peVars, clVars, qVars>>

\* the first caller has its result (or its exception) and may call again
Release ==
    /\ pc \in {"done", "raised"} /\ pe = "idle"
    /\ pc' = "idle" /\ p' = <<0, 0>> /\ s0' = 0 /\ ds' = 1 /\ s_lim' = 0
    /\ verbose' = FALSE /\ smin' = 0 /\ smax' = 0 /\ cnt' = 0
    /\ branch' = "none" /\ warned' = FALSE /\ result' = << >>
    /\ err' = "none"
    /\ UNCHANGED <<buildVars, otherVars>>

\* the same for the second caller
Release2 ==
    /\ t2.pc \in {"done", "raised"}
    /\ t2' = IdleLocal
    /\ UNCHANGED <<buildVars, err, callVars, peVars, clVars, qVars>>

---------------------------------------------------------------------------
(* SplinePath.p, x, y, c and sample.  An optional argument is << >> for    *)
(* None and <<v>> for the value v.  An arc length that need not be an      *)
(* integer is a pair <<n, m>>, m > 0, standing for n / m.                  *)

\* these queries are evaluated on a constructed path of three knots
Queryable == st = "built" /\ Len(si) = 3 /\ pc = "idle" /\ pe = "idle"

Returns(v) == [st |-> "returned", val |-> v, err |-> "none"]

Raises(e) == [st |-> "raised", val |-> << >>, err |-> e]

\* m^2 * Den * fx(n / m) for c = 1, and the same of fy for c = 2
NumR(c, n, m) ==
    fxy[1][c] * (n - si[2] * m) * (n - si[3] * m) * (si[3] - si[2])
    - fxy[2][c] * n * (n - si[3] * m) * si[3]
    + fxy[3][c] * n * (n - si[2] * m) * si[2]

\* fx and fy raise ValueError outside [si[0], si[-1]]
InDomainR(r) == si[1] * r[2] <= r[1] /\ r[1] <= si[Len(si)] * r[2]

\* self.p(s) for an array s: the rows (fx(s_k), fy(s_k)), or ValueError when
\* an entry is outside the domain
PArray(ss) ==
    IF \A k \in 1..Len(ss) : InDomainR(ss[k])
    THEN Returns([k \in 1..Len(ss) |->
                    [s |-> ss[k],
                     pt |-> <<NumR(1, ss[k][1], ss[k][2]),
                              NumR(2, ss[k][1], ss[k][2])>>]])
    ELSE Raises("ValueError")

\* np.linspace(0, stop, n) for n >= 0: n = 1 gives [0]
linspace(stop, n) ==
    [k \in 1..n |-> IF n = 1 THEN <<0, 1>> ELSE <<(k - 1) * stop, n - 1>>]

\* the least integer >= a / b, for a >= 0 and b > 0
CeilDiv(a, b) == (a + b - 1) \div b

\* np.arange(0, stop, step) for step # 0 and stop >= 0: ceil(stop / step)
\* entries, none when that is not positive
arange(stop, step) ==
    IF step < 0 THEN << >>
    ELSE [k \in 1..CeilDiv(stop, step) |-> <<(k - 1) * step, 1>>]

\* the exceptions np.arange raises on a zero step, by numpy version
ZeroStepErrors == {"ZeroDivisionError", "ValueError", "OverflowError"}

\* (mutant) the step samples include the end of the path
SampleAnswers_closed(oN, oL) ==
    IF oN # << >>
    THEN IF oN[1] < 0 THEN {Raises("ValueError")}
         ELSE {PArray(linspace(length, oN[1]))}
    ELSE IF oL # << >>
    THEN IF oL[1] = 0 THEN {Raises(e) : e \in ZeroStepErrors}
         ELSE {PArray(arange(length + 1, oL[1]))}
    ELSE {Raises("ValueError")}

\* lines 235-240: what sample(N, sample_length) returns or raises
SampleAnswers(oN, oL) ==
    IF oN # << >>
    THEN IF oN[1] < 0 THEN {Raises("ValueError")}     \* np.linspace refuses
         ELSE {PArray(linspace(length, oN[1]))}
    ELSE IF oL # << >>
    THEN IF oL[1] = 0 THEN {Raises(e) : e \in ZeroStepErrors}
         ELSE {PArray(arange(length, oL[1]))}
    ELSE {Raises("ValueError")}                       \* line 240

Sample(oN, oL) ==
    /\ Queryable
    /\ qry' = [op |-> "sample", a |-> oN, b |-> oL]
    /\ ans' \in SampleAnswers(oN, oL)
    /\ UNCHANGED <<buildVars, err, callVars, peVars, clVars, t2, nfail>>

\* lines 95-108: p(s), x(s) and y(s) for a scalar s
PointAnswer(op, s) ==
    IF ~InDomain(s) THEN Raises("ValueError")
    ELSE IF op = "p" THEN Returns(P(s))
    ELSE IF op = "x" THEN Returns(Num(1, s))
    ELSE Returns(Num(2, s))

QueryPoint(op, s) ==
    /\ Queryable
    /\ qry' = [op |-> op, a |-> <<s>>, b |-> << >>]
    /\ ans' = PointAnswer(op, s)
    /\ nfail' = (nfail \/ ~InDomain(s))
    /\ UNCHANGED <<buildVars, err, callVars, peVars, clVars, t2>>

\* Den * ddfx for c = 1, Den * ddfy for c = 2 (constant along the path)
DDNum(c) ==
    2 * (fxy[1][c] * (si[3] - si[2]) - fxy[2][c] * si[3] + fxy[3][c] * si[2])

\* line 88: Den^2 * ci at knot j
CI(j) == DNum(1, si[j]) * DDNum(2) - DNum(2, si[j]) * DDNum(1)

\* Den^3 * (the parabola through the (si, ci))(s)
CNum(s) ==
    CI(1) * (s - si[2]) * (s - si[3]) * (si[3] - si[2])
    - CI(2) * s * (s - si[3]) * si[3]
    + CI(3) * s * (s - si[2]) * si[2]

\* A path of four knots.  For kind='quadratic' scipy's make_interp_spline
\* puts one interior knot at the midpoint m of si[2] and si[3]: the
\* interpolant is one parabola on [si[1], m] and another on [m, si[4]],
\* joined with a continuous derivative g at m and with second derivatives
\* 2 * aA and 2 * aB.
E0 == si[2] - si[1]

Dm == si[3] - si[2]

E2 == si[4] - si[3]

P1 == si[3] - si[1]

P2 == si[4] - si[2]

G4 == 4 * P1 * P2 - Dm * (P1 + P2)

Q4 == Dm * E0 * E2 * G4

\* Q4 * g, for fx (c = 1) and fy (c = 2)
GN(c) ==
    4 * P1 * P2 * (fxy[3][c] - fxy[2][c]) * E0 * E2
    - Dm * Dm * (P1 * (fxy[4][c] - fxy[3][c]) * E0
                 + P2 * (fxy[2][c] - fxy[1][c]) * E2)

\* Q4 * P1 * aA and Q4 * P2 * aB
AA(c) == GN(c) - (fxy[2][c] - fxy[1][c]) * Dm * E2 * G4

AB(c) == (fxy[4][c] - fxy[3][c]) * Dm * E0 * G4 - GN(c)

\* line 88: dfx * ddfy - dfy * ddfx is constant on each parabola; CA is its
\* value at the knots 1 and 2, CB at the knots 3 and 4, times Q4^2 * P1 * P2
CA == 2 * (GN(1) * AA(2) - GN(2) * AA(1)) * P2

CB == 2 * (GN(1) * AB(2) - GN(2) * AB(1)) * P1

Z(s) == 2 * s - si[2] - si[3]

\* Dm * G4 * (the quadratic spline through (si, ci))(s), with the scale of
\* CA and CB
C4Num(s) ==
    CA * Dm * G4
    + (CB - CA) * (IF Z(s) <= 0
                   THEN P2 * (Dm * (2 * P1 - Dm) + 2 * P1 * Z(s) + Z(s) * Z(s))
                   ELSE Dm * P2 * (2 * P1 - Dm) + 2 * P1 * P2 * Z(s)
                        - P1 * Z(s) * Z(s))

\* the spline of line 92 evaluated at s, inside its domain or not
CSpline(s) == IF Len(si) = 3 THEN CNum(s) ELSE C4Num(s)

\* ci[0] and ci[-1], in the scale of CSpline
CFirst == IF Len(si) = 3 THEN CI(1) * Den ELSE CA * Dm * G4

CLast == IF Len(si) = 3 THEN CI(3) * Den ELSE CB * Dm * G4

\* (mutant) _c extrapolates
C_extrapolating(s) == CSpline(s)

\* lines 92 and 110-112: c(s); _c is built with bounds_error=False and
\* fill_value=(ci[0], ci[-1])
C(s) ==
    IF s < si[1] THEN CFirst
    ELSE IF s > si[Len(si)] THEN CLast
    ELSE CSpline(s)

\* c is evaluated on a constructed path of three or four knots
CQueryable ==
    st = "built" /\ Len(si) \in {3, 4} /\ pc = "idle" /\ pe = "idle"

QueryC(s) ==
    /\ CQueryable
    /\ qry' = [op |-> "c", a |-> <<s>>, b |-> << >>]
    /\ ans' = Returns(C(s))
    /\ UNCHANGED <<buildVars, err, callVars, peVars, clVars, t2, nfail>>

---------------------------------------------------------------------------
(* SplinePath.heading as a query, for a scalar and for an array.  The      *)
(* splines of fx and fy hold their ordinates as a column, so _dfx(s) is a  *)
(* column of one entry per arc length and np.hstack of the two columns is  *)
(* the matrix of the rows (dfx(s_k), dfy(s_k)).                            *)

\* line 138 for an array: row k is Den * (dfx(s_k), dfy(s_k))
HStack(ss) == [k \in 1..Len(ss) |-> <<DNum(1, ss[k]), DNum(2, ss[k])>>]

\* (mutant) the norm of the whole matrix instead of the norm of each row
RowNorm2_whole(H, k) ==
    LET acc[i \in 0..Len(H)] ==
            IF i = 0 THEN 0
            ELSE acc[i - 1] + H[i][1] * H[i][1] + H[i][2] * H[i][2]
    IN  acc[Len(H)]

\* line 145: the square of np.linalg.norm(h, axis=1)[k]
RowNorm2(H, k) == H[k][1] * H[k][1] + H[k][2] * H[k][2]

\* lines 145-148: row k is scaled by 1 / norm (0 * inf = NaN when the norm
\* is 0), the normal is column_stack((-h[:, 1], h[:, 0]))
headingArray(ss) ==
    [k \in 1..Len(ss) |->
        [nan |-> (RowNorm2(HStack(ss), k) = 0),
         h |-> HStack(ss)[k],
         nc |-> <<-HStack(ss)[k][2], HStack(ss)[k][1]>>,
         n2 |-> RowNorm2(HStack(ss), k)]]

\* heading(s) for a scalar s
QueryHeading(s) ==
    /\ Queryable
    /\ qry' = [op |-> "heading", a |-> <<s>>, b |-> << >>]
    /\ ans' = Returns(heading(s))
    /\ UNCHANGED <<buildVars, err, callVars, peVars, clVars, t2, nfail>>

\* heading(s) for an array s
QueryHeadingArray(ss) ==
    /\ Queryable
    /\ qry' = [op |-> "headings", a |-> ss, b |-> << >>]
    /\ ans' = Returns(headingArray(ss))
    /\ UNCHANGED <<buildVars, err, callVars, peVars, clVars, t2, nfail>>

---------------------------------------------------------------------------
(* Inputs of project, and the specification of construction followed by    *)
(* one call of project.                                                    *)

QMargin == 2        \* query points lie at most QMargin outside the knots' box
SeedMargin == 1     \* seeds are in -SeedMargin .. length + SeedMargin
MaxDs == 2          \* ds is in -1..MaxDs
MaxSLim == 3        \* s_lim is in -1..MaxSLim, or the default
FarDist == 100      \* how far past the last waypoint the far query point lies

MaxTraj == 3        \* trajectories of path_error have 0..MaxTraj points

DefaultDs == 1      \* ds: float = 1
DefaultSLim == 20   \* s_lim: int = 20

\* waypoint sequences whose interpolants the model evaluates: a straight
\* line along +x, two left turns, a right turn, a gentle left bend, a path
\* doubling back on itself, and a line of four points that min_grid = 2
\* reduces to three knots
ProjWaypoints ==
    { << <<0, 0>>, <<2, 0>>, <<4, 0>> >>,
      << <<0, 0>>, <<2, 0>>, <<2, 2>> >>,
      << <<0, 0>>, <<2, 0>>, <<2, 1>> >>,
      << <<0, 0>>, <<0, 2>>, <<2, 2>> >>,
      << <<0, 0>>, <<4, 0>>, <<7, 4>> >>,
      << <<0, 0>>, <<2, 0>>, <<0, 0>> >>,
      << <<0, 0>>, <<1, 0>>, <<2, 0>>, <<4, 0>> >> }

Coords(c) == {path[i][c] : i \in 1..Len(path)}

QueryRange(c) ==
    ((CHOOSE m \in Coords(c) : \A v \in Coords(c) : m <= v) - QMargin)
    .. ((CHOOSE m \in Coords(c) : \A v \in Coords(c) : m >= v) + QMargin)

\* the point FarDist past the last waypoint, along the last chord
FarPoint ==
    LET a == path[Len(path) - 1]
        b == path[Len(path)]
        c == Chord(a, b)
    IN  <<b[1] + (FarDist * (b[1] - a[1])) \div c,
          b[2] + (FarDist * (b[2] - a[2])) \div c>>

\* query points, scaled by Den: grid points around the path, the far
\* point, and the points p(s) of the path itself
QueryPoints ==
    {<<x * Den, y * Den>> : x \in QueryRange(1), y \in QueryRange(2)}
    \cup {<<FarPoint[1] * Den, FarPoint[2] * Den>>}
    \cup {P(s) : s \in 0..length}

\* the points of the trajectories: the knots of the path and a point off it
TrajPoints ==
    {P(s) : s \in {0, si[2], length}}
    \cup {<<(path[2][1] + 1) * Den, (path[2][2] + 1) * Den>>}

RECURSIVE Trajectories(_)
Trajectories(n) ==
    IF n = 0 THEN {<< >>}
    ELSE {Append(tr, q) : tr \in Trajectories(n - 1), q \in TrajPoints}

AllTrajectories == UNION {Trajectories(n) : n \in 0..MaxTraj}

Seeds == (0 - SeedMargin)..(length + SeedMargin)

DsChoices == (-1)..MaxDs

SLimChoices == ((-1)..MaxSLim) \cup {DefaultSLim}

Init ==
    /\ points \in ProjWaypoints
    /\ min_grid = IF Len(points) > 3 THEN <<2>> ELSE << >>
    /\ NewObject
    /\ IdleCall
    /\ IdlePathError
    /\ t2 = IdleLocal
    /\ NoQuery
    /\ NewClient

Next ==
    \/ Construct
    \/ Callable /\ \E q \in QueryPoints, seed \in Seeds, step \in DsChoices,
          lim \in SLimChoices, vb \in BOOLEAN :
          ProjectCall(q, seed, step, lim, vb)
    \/ LoopRaise
    \/ Expand
    \/ FinishRoot
    \/ FinishRootRaise
    \/ FinishFallback
    \/ Callable /\ \E traj \in AllTrajectories : PathErrorCall(traj)
    \/ PathErrorNext
    \/ PathErrorRaise

Spec == Init /\ [][Next]_vars

\* the construction followed by assignments to the path property
NextSetter ==
    \/ Construct
    \/ \E new \in AllWaypointSeqs : SetPath(new)

SpecSetter == Init /\ [][NextSetter]_vars

\* arguments of the concurrent calls
ConcSeeds == {0, si[2], length + 1}

ConcDs == {DefaultDs, 2}

ConcSLim == {2, DefaultSLim}

\* the construction followed by calls of project by two callers, their
\* steps interleaved in any order
NextConc ==
    \/ Construct
    \/ Callable /\ \E q \in TrajPoints, seed \in ConcSeeds, step \in ConcDs,
          lim \in ConcSLim : ProjectCall(q, seed, step, lim, FALSE)
    \/ LoopRaise
    \/ Expand
    \/ FinishRoot
    \/ FinishRootRaise
    \/ FinishFallback
    \/ Release
    \/ st = "built" /\ \E q \in TrajPoints, seed \in ConcSeeds, step \in ConcDs,
          lim \in ConcSLim : Call2(q, seed, step, lim)
    \/ Step2
    \/ Release2

SpecConc == Init /\ [][NextConc]_vars

MaxN == 4           \* sample: N is None or in -1..MaxN
MaxSampleLen == 3   \* sample: sample_length is None or in -1..MaxSampleLen

Optional(S) == {<< >>} \cup {<<v>> : v \in S}

MaxHead == 2        \* heading: arrays of 0..MaxHead arc lengths

\* the arrays of arc lengths in [0, length] handed to heading: the ends,
\* the interior knot and the arc length next to the start
ArcArrays == UNION {[1..n -> {0, 1, si[2], length}] : n \in 0..MaxHead}

\* the construction followed by calls of sample, p, x, y and c
NextQuery ==
    \/ Construct
    \/ \E oN \in Optional((-1)..MaxN), oL \in Optional((-1)..MaxSampleLen) :
          Sample(oN, oL)
    \/ Queryable /\ \E op \in {"p", "x", "y"}, s \in Seeds : QueryPoint(op, s)
    \/ CQueryable /\ \E s \in Seeds : QueryC(s)
    \/ Queryable /\ \E s \in 0..length : QueryHeading(s)
    \/ Queryable /\ \E ss \in ArcArrays : QueryHeadingArray(ss)

\* paths of four knots: an S-bend, a line ending in a left turn, a line
FourKnotWaypoints ==
    { << <<0, 0>>, <<1, 0>>, <<1, 1>>, <<2, 1>> >>,
      << <<0, 0>>, <<1, 0>>, <<2, 0>>, <<2, 1>> >>,
      << <<0, 0>>, <<1, 0>>, <<2, 0>>, <<3, 0>> >> }

InitQuery ==
    /\ points \in ProjWaypoints \cup FourKnotWaypoints
    /\ min_grid = IF points \in ProjWaypoints /\ Len(points) > 3
                  THEN <<2>> ELSE << >>
    /\ NewObject
    /\ IdleCall
    /\ IdlePathError
    /\ t2 = IdleLocal
    /\ NoQuery
    /\ NewClient

SpecQuery == InitQuery /\ [][NextQuery]_vars

\* the steps of a call of project that has not ended
Step == LoopRaise \/ Expand \/ FinishRoot \/ FinishRootRaise \/ FinishFallback

---------------------------------------------------------------------------
(* Properties of the construction (checked under SpecBuild).               *)

Constructed == st # "new"

LastKnot == path[Len(path)]

\* C1: with min_grid = g > 0 every two consecutive retained knots are at
\* least g of arc length apart, except possibly the last two, and the first
\* and the last waypoint are retained (as the first and the last knot).
C1_MinGridGaps ==
    (Constructed /\ min_grid # << >> /\ min_grid[1] > 0) =>
        /\ \A i \in 1..(Len(si) - 2) : si[i + 1] - si[i] >= min_grid[1]
        /\ path[1] = points[1]
        /\ LastKnot = points[Len(points)]

\* a path was built, a waypoint was dropped, and the last gap is the short one
C1_Witness ==
    /\ st = "built" /\ min_grid # << >> /\ min_grid[1] > 0
    /\ Len(path) < Len(points)
    /\ si[Len(si)] - si[Len(si) - 1] < min_grid[1]
    /\ si[2] - si[1] >= min_grid[1]

DistinctPoints == {points[i] : i \in 1..Len(points)}

\* C2: a waypoint sequence with fewer than 2 distinct points (one point, or
\* all points coincident) makes the construction fail with an exception
\* (the ValueError of interp1d) and yields no path.
C2_FewDistinctPointsFail ==
    (Constructed /\ Cardinality(DistinctPoints) < 2) =>
        (st = "failed" /\ err = "ValueError")

\* three coincident points: enough entries for interp1d, and still refused
C2_Witness ==
    /\ st = "failed"
    /\ Len(points) >= 3
    /\ Cardinality(DistinctPoints) = 1

---------------------------------------------------------------------------
(* Properties of project (checked under Spec).                             *)

Returned == pc = "done"

Ended == pc \in {"done", "raised"}

SeedOnPath == 0 <= s0 /\ s0 <= length

Far == <<FarPoint[1] * Den, FarPoint[2] * Den>>

\* f has strictly opposite signs, or is zero at exactly one end
SignChange(a, b) ==
    /\ ~s_fun(p, a).nan /\ ~s_fun(p, b).nan
    /\ Sgn(s_fun(p, a).num) # Sgn(s_fun(p, b).num)

\* the least n with n >= s_lim / ds, for ds > 0 and s_lim >= 0
CeilLimit == IF s_lim = 0 THEN 0 ELSE ((s_lim - 1) \div ds) + 1

\* C3: every returned s* lies in [0, length], from the root-finder or from
\* the fallback, whatever p, s0, ds and s_lim are.
C3_ResultInDomain ==
    Returned => (0 <= result[1] /\ result[1] <= length)

\* a seed on the path, a negative step: the fallback returns the seed
C3_Witness ==
    /\ Returned /\ branch = "fallback" /\ ds < 0
    /\ result[1] = s0 /\ 0 < s0 /\ s0 < length

\* C4: whenever the expansion stops at a bracket over which f changes sign,
\* after a number of expansions up to the limit s_lim / ds, project returns
\* a root of f found in the bracket by brenth, not the boundary fallback.
C4_SignChangeTakesRoot ==
    (Returned /\ ds > 0 /\ cnt * ds <= s_lim /\ SignChange(smin, smax)) =>
        (branch = "root" /\ result[1] \in BrentRoots(p, smin, smax))

\* C5: when the expansion is exhausted without a sign change, s* is one of
\* the two final bracket ends, and p(s*) is not farther from the query
\* point than the path point at the other end.
C5_FallbackNearerEnd ==
    (Returned /\ branch = "fallback" /\ ~SignChange(smin, smax)) =>
        /\ result[1] \in {smin, smax}
        /\ Dist2(p, result[1]) <= Dist2(p, smin)
        /\ Dist2(p, result[1]) <= Dist2(p, smax)

\* the lower end is strictly nearer and is the one returned
C5_Witness ==
    /\ Returned /\ branch = "fallback" /\ ~SignChange(smin, smax)
    /\ smin < smax
    /\ Dist2(p, smin) < Dist2(p, smax)
    /\ result[1] = smin

\* whether the returned tuple has a component beyond (s*, signed_offset)
HasFlag(r) == Len(r) > 2

C8_OnPathPointProjectsToItself ==
    (Ended /\ SeedOnPath /\ p = P(s0) /\ ds = DefaultDs /\ s_lim = DefaultSLim) =>
        /\ Returned
        /\ result[1] = s0
        /\ ~result[2].nan /\ result[2].num = 0

\* the straight path along +x of the example of C9
AlongX == points = << <<0, 0>>, <<2, 0>>, <<4, 0>> >>

\* C9: the returned signed_offset is cross(tangent(s*), p - path(s*)) at
\* the returned s*, in the root case and in the fallback case; on the path
\* along +x it is the y coordinate of p (positive on the left), and the
\* point (2, 2) projected from seed 2 gives (2, 2).
C9_SignedOffsetIsCross ==
    Returned =>
        LET s == result[1]
            off == result[2]
        IN  /\ off.nan = (DNum(1, s) = 0 /\ DNum(2, s) = 0)
            /\ off.num = DNum(1, s) * (p[2] - Num(2, s))
                       - DNum(2, s) * (p[1] - Num(1, s))
            /\ off.n2 = DNum(1, s) * DNum(1, s) + DNum(2, s) * DNum(2, s)
            /\ AlongX => off.num = p[2] * ISqrt(off.n2)
            /\ (AlongX /\ p = <<2 * Den, 2 * Den>> /\ s0 = 2 /\ branch = "root")
                   => (s = 2 /\ off.num = 2 * Den * ISqrt(off.n2))

\* the example: (2, 2) from seed 2 on the path along +x
C9_Witness ==
    /\ Returned /\ AlongX /\ p = <<2 * Den, 2 * Den>> /\ s0 = 2
    /\ ds = DefaultDs /\ s_lim = DefaultSLim
    /\ branch = "root"
    /\ result[1] = 2 /\ result[2].num > 0

\* the query point is the far point, the seed is on the path, s_lim small
FarQuery ==
    /\ Ended /\ p = Far /\ SeedOnPath
    /\ ds > 0 /\ 0 <= s_lim /\ s_lim <= MaxSLim

\* f has one sign along the whole path: the point lies beyond its reach
OneSign == \A s \in 0..length : SameSign(s_fun(p, s), s_fun(p, 0))

\* C10 as claimed: for the far point and a small s_lim project returns the
\* boundary fallback at s* = length, whatever the seed in [0, length].
C10_FarPointAtLength ==
    FarQuery =>
        /\ Returned /\ branch = "fallback"
        /\ ~result[2].nan
        /\ result[1] = length

\* C10 as amended: for the far point, beyond the reach of the path, and a
\* small s_lim, project returns normally with the boundary fallback at the
\* final upper bracket end min(length, s0 + ceil(s_lim / ds) * ds), which is
\* length only for the seeds that close to the end.
C10_FarPointAtUpperEnd ==
    (FarQuery /\ OneSign) =>
        /\ Returned /\ branch = "fallback"
        /\ ~result[2].nan
        /\ result[1] = smax
        /\ result[1] = Min2(length, s0 + CeilLimit * ds)

\* on the bent path the fallback reaches the end of the path
C10_Witness ==
    /\ FarQuery /\ OneSign
    /\ ~AlongX /\ Len(points) = 3
    /\ Returned /\ branch = "fallback"
    /\ s0 < length /\ result[1] = length /\ cnt > 1

---------------------------------------------------------------------------
(* Properties of path_error (checked under Spec).                          *)

\* the calls made so far are in trajectory order, the first seeded with 0
\* and each later one with the s* the call before it returned, and d holds
\* the offsets returned so far
PathErrorChain ==
    pe # "idle" =>
        /\ Len(calls) <= Len(w)
        /\ Len(d) = Len(w)
        /\ \A i \in 1..Len(calls) :
              /\ calls[i][1] = w[i]
              /\ calls[i][2] = IF i = 1 THEN 0 ELSE rets[i - 1][1]
        /\ \A i \in 1..Len(rets) : d[i] = rets[i][2]
        /\ pe = "run" =>
              /\ Len(rets) = Len(calls) - 1
              /\ p = w[Len(calls)] /\ s0 = calls[Len(calls)][2]
              /\ ds = PathErrorDs /\ s_lim = PathErrorSLim

\* C11: path_error on a trajectory of N points makes exactly N project
\* calls in trajectory order, the first seeded with 0 and call k with the
\* s* returned by call k - 1, and returns N offsets, entry k being the
\* offset returned by call k.
C11_PathErrorMakesNCalls ==
    /\ PathErrorChain
    /\ pe \in {"done", "raised"} =>
          /\ pe = "done"
          /\ Len(calls) = Len(w) /\ Len(rets) = Len(w)
          /\ \A i \in 1..Len(w) : d[i] = rets[i][2]

---------------------------------------------------------------------------
(* Properties of the path property (checked under SpecSetter).             *)

\* the stored knot points are the ones the interpolants were built from,
\* and the stored length is the end of the interpolants' domain
DerivedFromKnots ==
    /\ path = fxy
    /\ path = [i \in 1..Len(si_idx) |-> points[si_idx[i]]]
    /\ length = si[Len(si)]

\* C12: no operation on a constructed path, the assignment to its path
\* property included, changes its knot points, its length or its
\* interpolants; in every reachable state the stored length and the
\* interpolants are the ones derived from the stored knot points.
C12_Immutable ==
    /\ [](st = "built" => DerivedFromKnots)
    /\ [][st = "built" =>
            (path' = path /\ length' = length /\ fxy' = fxy /\ si' = si)]_vars

---------------------------------------------------------------------------
(* Properties of concurrent queries (checked under SpecConc).              *)

\* the locals a call can end with when it runs alone, from its first step
\* to its last
RECURSIVE RunFrom(_)
RunFrom(l) ==
    IF l.pc # "loop" THEN {l} ELSE UNION {RunFrom(m) : m \in StepOf(l)}

\* what project(q, seed, step, lim) gives when it runs alone: a returned
\* tuple or an exception
Sequential(q, seed, step, lim) ==
    {<<l.pc, l.result, l.err>> : l \in RunFrom(EnterLocal(q, seed, step, lim))}

---------------------------------------------------------------------------
(* Properties of sample, p, x, y and c (checked under SpecQuery).          *)

Sampled == qry.op = "sample"

OnlyN == Sampled /\ qry.a # << >> /\ qry.b = << >>

OnlyStep == Sampled /\ qry.a = << >> /\ qry.b # << >>

\* C14: sample fails unless exactly one of N and sample_length is given:
\* it fails when neither is given and it fails when both are given.
C14_ExactlyOneArgument ==
    (Sampled /\ ~OnlyN /\ ~OnlyStep) => ans.st = "raised"

\* C15: sample fails whenever the one value given is not positive (N <= 0,
\* or sample_length <= 0); it never returns a point set, empty or not, for
\* such a value.
C15_NonPositiveFails ==
    /\ (OnlyN /\ qry.a[1] <= 0) => ans.st = "raised"
    /\ (OnlyStep /\ qry.b[1] <= 0) => ans.st = "raised"

\* the arc length of row k of the returned array
ArcOf(k) == ans.val[k].s

\* sample(N): N arc lengths (k - 1) * length / (N - 1), k = 1 .. N
EvenlySpaced ==
    /\ ans.st = "returned"
    /\ Len(ans.val) = qry.a[1]
    /\ \A k \in 1..Len(ans.val) :
          ArcOf(k)[1] * (qry.a[1] - 1) = (k - 1) * length * ArcOf(k)[2]

\* sample(step): the arc lengths 0, step, 2 * step, ...
StepSpaced ==
    /\ ans.st = "returned"
    /\ \A k \in 1..Len(ans.val) : ArcOf(k) = <<(k - 1) * qry.b[1], 1>>

\* every arc length evaluated lies in [0, length]
AllInDomain ==
    \A k \in 1..Len(ans.val) :
        0 <= ArcOf(k)[1] /\ ArcOf(k)[1] <= length * ArcOf(k)[2]

HasZero == \E k \in 1..Len(ans.val) : ArcOf(k)[1] = 0

HasLength == \E k \in 1..Len(ans.val) : ArcOf(k)[1] = length * ArcOf(k)[2]

\* C16 as claimed: sample(N), N >= 1, evaluates p at the N arc lengths
\* k * length / (N - 1), which include 0 and length; sample(step), step > 0,
\* at 0, step, 2 * step, ...; all of them in [0, length].
C16_SampleGrid ==
    /\ (OnlyN /\ qry.a[1] >= 1) =>
          (EvenlySpaced /\ HasZero /\ HasLength /\ AllInDomain)
    /\ (OnlyStep /\ qry.b[1] > 0) =>
          (StepSpaced /\ HasZero /\ AllInDomain)

\* C16 as amended: for N >= 2 as claimed; sample(1) evaluates p at 0 alone,
\* not at length; sample(step), step > 0, evaluates p at the
\* ceil(length / step) arc lengths 0, step, 2 * step, ...; all of them in
\* [0, length], and the rows returned are p at these arc lengths.
C16_SampleGridFromTwo ==
    /\ (OnlyN /\ qry.a[1] >= 2) =>
          (EvenlySpaced /\ HasZero /\ HasLength /\ AllInDomain)
    /\ (OnlyN /\ qry.a[1] = 1) =>
          (ans.st = "returned" /\ Len(ans.val) = 1 /\ ArcOf(1) = <<0, 1>>)
    /\ (OnlyStep /\ qry.b[1] > 0) =>
          /\ StepSpaced /\ HasZero /\ AllInDomain
          /\ (Len(ans.val) - 1) * qry.b[1] < length
          /\ Len(ans.val) * qry.b[1] >= length
    /\ (Sampled /\ ans.st = "returned") =>
          \A k \in 1..Len(ans.val) :
              ans.val[k].pt = <<NumR(1, ArcOf(k)[1], ArcOf(k)[2]),
                                NumR(2, ArcOf(k)[1], ArcOf(k)[2])>>

\* three samples of a path of odd length: the middle one between two
\* integer arc lengths
C16_Witness ==
    /\ OnlyN /\ qry.a[1] = 3 /\ ans.st = "returned"
    /\ Len(ans.val) = 3
    /\ ArcOf(2)[1] % ArcOf(2)[2] # 0
    /\ ArcOf(3)[1] = length * ArcOf(3)[2]

\* C17: c(s) never fails and outside [0, length] it is the value at the
\* nearer end: c(s) = c(0) for s < 0 and c(s) = c(length) for s > length.
C17_CurvatureClamped ==
    qry.op = "c" =>
        /\ ans.st = "returned"
        /\ qry.a[1] < 0 => ans.val = CSpline(0)
        /\ qry.a[1] > length => ans.val = CSpline(length)

\* past the end of a bent path, where the parabola of c would give another
\* value
C17_Witness ==
    /\ qry.op = "c" /\ qry.a[1] > length
    /\ ans.st = "returned" /\ ans.val # 0
    /\ ans.val # CSpline(qry.a[1])

\* C18: p(s), x(s) and y(s) raise (the ValueError of interp1d) for s outside
\* [0, length], returning nothing, extrapolated or clamped; the path is
\* left as it was, and a query inside the domain still returns its value,
\* also after a failure.
C18_OutOfDomainRaises ==
    qry.op \in {"p", "x", "y"} =>
        /\ DerivedFromKnots
        /\ (qry.a[1] < 0 \/ qry.a[1] > length) =>
              (ans.st = "raised" /\ ans.err = "ValueError" /\ ans.val = << >>)
        /\ (0 <= qry.a[1] /\ qry.a[1] <= length) =>
              /\ ans.st = "returned"
              /\ qry.op = "p" => ans.val = <<Num(1, qry.a[1]), Num(2, qry.a[1])>>
              /\ qry.op = "x" => ans.val = Num(1, qry.a[1])
              /\ qry.op = "y" => ans.val = Num(2, qry.a[1])
              /\ (qry.op = "p" /\ qry.a[1] = si[2]) =>
                    ans.val = <<Den * path[2][1], Den * path[2][2]>>

\* after a failed query, p(length) returns the last knot
C18_Witness ==
    /\ nfail /\ qry.op = "p" /\ qry.a[1] = length
    /\ ans.st = "returned"
    /\ ans.val = <<Den * path[3][1], Den * path[3][2]>>

---------------------------------------------------------------------------
(* Further properties of the construction (checked under SpecBuild).       *)

\* C19: for every path that construction returns, with or without
\* min_grid, the knot arc lengths start at 0 and are strictly increasing,
\* each is the cumulative chord length of its waypoint, and length is the
\* arc length of the last knot, so that fx and fy are defined exactly on
\* [0, length].
C19_KnotsIncreasing ==
    st = "built" =>
        /\ si[1] = 0
        /\ \A i \in 1..(Len(si) - 1) : si[i] < si[i + 1]
        /\ \A i \in 1..Len(si) : si[i] = CumLen(points, si_idx[i])
        /\ length = si[Len(si)]
        /\ \A s \in (-1)..(length + 1) : InDomain(s) = (0 <= s /\ s <= length)

\* a repeated waypoint that min_grid drops, leaving increasing arc lengths
C19_Witness ==
    /\ st = "built" /\ min_grid # << >>
    /\ \E i \in 1..(Len(points) - 1) : points[i] = points[i + 1]
    /\ Len(si) = 3

---------------------------------------------------------------------------
(* The search function of project (checked under Spec).                    *)

\* the vector from the path point at s to the query point, times Den
ToQuery(s) == <<p[1] - Num(1, s), p[2] - Num(2, s)>>

\* cross(tangent(s), p - path(s)) and dot(tangent(s), p - path(s)), both
\* times Den^2 * |(dfx, dfy)|
CrossAt(s) == DNum(1, s) * ToQuery(s)[2] - DNum(2, s) * ToQuery(s)[1]

DotAt(s) == DNum(1, s) * ToQuery(s)[1] + DNum(2, s) * ToQuery(s)[2]

\* the loop condition is being evaluated at the bracket ends
Searching == pc = "loop" /\ ~CondRaises

\* brenth returned an exact zero of the search function
ExactRoot ==
    /\ Returned /\ branch = "root"
    /\ ~s_fun(p, result[1]).nan /\ s_fun(p, result[1]).num = 0

\* C20 as claimed: the function whose sign is tested at the bracket ends
\* and whose root is returned is f(s) = cross(tangent(s), p - path(s)).
C20_SearchFunctionIsCross ==
    /\ Searching =>
          /\ s_fun(p, smin).num = CrossAt(smin)
          /\ s_fun(p, smax).num = CrossAt(smax)
    /\ ExactRoot => CrossAt(result[1]) = 0

\* C20 as amended: it is f(s) = dot(tangent(s), p - path(s)), which
\* vanishes where the vector to p is perpendicular to the tangent; the
\* cross product is the signed offset returned, not the search function.
C20_SearchFunctionIsDot ==
    /\ Searching =>
          /\ s_fun(p, smin).num = DotAt(smin)
          /\ s_fun(p, smax).num = DotAt(smax)
    /\ ExactRoot =>
          /\ DotAt(result[1]) = 0
          /\ result[2].num = CrossAt(result[1])

\* a root of the dot product at which the cross product is not zero
C20_Witness ==
    /\ ExactRoot
    /\ cnt > 0
    /\ DotAt(result[1]) = 0
    /\ CrossAt(result[1]) # 0

---------------------------------------------------------------------------
(* Properties of heading (checked under SpecQuery).                        *)

\* C21: for every array of arc lengths in [0, length] the call of heading
\* on the array succeeds, and its row k (tangent and normal) is the result
\* of the scalar call heading(s_k): each row is normalized by its own norm.
C21_VectorizedHeadingAgrees ==
    qry.op = "headings" =>
        /\ ans.st = "returned"
        /\ Len(ans.val) = Len(qry.a)
        /\ \A k \in 1..Len(qry.a) : ans.val[k] = heading(qry.a[k])

\* two rows whose derivatives have different norms
C21_Witness ==
    /\ qry.op = "headings" /\ ans.st = "returned"
    /\ Len(ans.val) = 2
    /\ ~ans.val[1].nan /\ ~ans.val[2].nan
    /\ ans.val[1].n2 # ans.val[2].n2

\* C22: for every s in [0, length] of every constructed path heading(s)
\* returns a tangent of norm 1 and the normal (-h_y, h_x), orthogonal to
\* it; the result is never NaN because dx/ds and dy/ds vanish at s.
C22_HeadingDefined ==
    (qry.op = "heading" /\ 0 <= qry.a[1] /\ qry.a[1] <= length) =>
        /\ ans.st = "returned"
        /\ ~ans.val.nan
        /\ ans.val.n2 = ans.val.h[1] * ans.val.h[1] + ans.val.h[2] * ans.val.h[2]
        /\ ans.val.n2 > 0
        /\ ans.val.nc = <<-ans.val.h[2], ans.val.h[1]>>
        /\ ans.val.h[1] * ans.val.nc[1] + ans.val.h[2] * ans.val.nc[2] = 0

---------------------------------------------------------------------------
(* Properties of the construction and of PathBase's length.                *)

\* C23: a path can be constructed from exactly 2 distinct points: for a
\* straight line given by its two ends the construction succeeds and the
\* length is the distance between them.
C23_TwoPointsConstruct ==
    (st # "new" /\ Len(points) = 2 /\ points[1] # points[2]
        /\ min_grid = << >>) =>
        /\ st = "built"
        /\ length = Chord(points[1], points[2])

\* C24: resampling does not change the length: a path built with
\* min_grid > 0 has the total chord length of the original waypoints as
\* its length, as the path built without min_grid has, and every retained
\* knot keeps the cumulative arc length it had among the original ones.
C24_ResamplingKeepsLength ==
    (st = "built" /\ min_grid # << >> /\ min_grid[1] > 0) =>
        /\ length = CumLen(points, Len(points))
        /\ length = SeqMax(ArcLengths(points))
        /\ Len(si) = Len(si_idx)
        /\ \A k \in 1..Len(si_idx) :
              /\ si[k] = CumLen(points, si_idx[k])
              /\ path[k] = points[si_idx[k]]

\* waypoints were dropped and the last one was forced in
C24_Witness ==
    /\ st = "built" /\ min_grid # << >> /\ min_grid[1] > 0
    /\ Len(si_idx) < Len(points)
    /\ si[Len(si)] - si[Len(si) - 1] < min_grid[1]

\* C25: the length PathBase computes on an assignment to the path
\* property is the sum of the distances between all consecutive points of
\* the stored path, for every sequence of 2 or more points.
C25_LengthIsSumOfChords ==
    (st = "built" /\ path # fxy /\ Len(path) >= 2) =>
        length = CumLen(path, Len(path))

---------------------------------------------------------------------------
(* Properties of the bracket of project (checked under Spec).              *)

\* a call of project with a seed in [0, length] and a positive step
SeededInside == pc # "idle" /\ 0 <= s0 /\ s0 <= length /\ ds > 0

\* C26: for every seed s0 in [0, length] and every ds > 0, at every step
\* of the expansion 0 <= smin <= s0 <= smax <= length; an expansion never
\* increases smin and never decreases smax, and it leaves the bracket
\* [0, length] unchanged.
C26_BracketInvariant ==
    /\ [](SeededInside =>
            (0 <= smin /\ smin <= s0 /\ s0 <= smax /\ smax <= length))
    /\ [][(SeededInside /\ pc = "loop" /\ cnt' = cnt + 1) =>
            /\ smin' <= smin
            /\ smax' >= smax
            /\ (smin = 0 /\ smax = length) => (smin' = smin /\ smax' = smax)]_vars

\* a seed strictly inside, the bracket clamped at both ends, and one more
\* expansion made on the full bracket
C26_Witness ==
    /\ SeededInside /\ pc = "loop"
    /\ 0 < s0 /\ s0 < length
    /\ smin = 0 /\ smax = length
    /\ (cnt - 1) * ds >= s0 /\ (cnt - 1) * ds >= length - s0

\* the root-finder has been invoked: it returned a root or it raised
RootFinderCalled ==
    \/ pc = "done" /\ branch = "root"
    \/ pc = "raised" /\ branch = "root"

\* C27: project invokes the root-finder only on a bracket with
\* smin < smax whose end values do not have the same sign.
C27_RootFinderPrecondition ==
    RootFinderCalled =>
        /\ smin < smax
        /\ ~s_fun(p, smin).nan /\ ~s_fun(p, smax).nan
        /\ Sgn(s_fun(p, smin).num) # Sgn(s_fun(p, smax).num)

---------------------------------------------------------------------------
(* LilsimClient (lilsim/client.py).  The caller's thread is thread 0 and   *)
(* responder thread t is thread t.  The simulator is the environment: it   *)
(* sends ControlRequests to the DEALER socket and answers admin commands   *)
(* on the REQ socket, successfully or not.  User code (a state callback, a *)
(* sync controller) and a recv on the REQ socket may take any time; a poll *)
(* takes at most 100 ms.                                                   *)

MaxVer == 2         \* schema versions 1..MaxVer; 0 in a scene: not set
MaxStarts == 2      \* start() creates threads at most MaxStarts times
MaxRequests == 2    \* the simulator sends at most MaxRequests requests

pathVars == <<buildVars, err, callVars, peVars, t2, qVars>>

\* metadata.inputs of the model served by the simulator
InputNames == <<"steering_wheel_angle_input", "ax_input">>

NInputs == Len(InputNames)

\* self.metadata_version for the cached metadata md
metadata_version(md) == md

\* self._zero_input_vector: [] before _apply_metadata, then line 1064
zero_input_vector(md) == IF md = 0 THEN << >> ELSE [k \in 1..NInputs |-> 0]

\* self.state_thread and self.control_thread: the thread created last
state_thread == Len(state_threads)

control_thread == Len(control_threads)

\* what a sync controller may do when called: raise, return None, return
\* a full vector, a vector of another length, a legacy triple, a mapping
\* (with a known name, an unknown name, a value float() rejects), or an
\* object that is neither a Mapping nor a Sequence (a numpy array)
\* an item of a mapping: number is FALSE for a value float() rejects
Item(name, value, number) ==
    [name |-> name, value |-> value, number |-> number]

ControllerOutputs ==
    {[kind |-> "raise", v |-> << >>, m |-> << >>],
     [kind |-> "None", v |-> << >>, m |-> << >>],
     [kind |-> "seq", v |-> <<1, 2>>, m |-> << >>],
     [kind |-> "seq", v |-> <<1>>, m |-> << >>],
     [kind |-> "seq", v |-> <<1, 2, 1>>, m |-> << >>],
     [kind |-> "map", v |-> << >>, m |-> <<Item("ax_input", 2, TRUE)>>],
     [kind |-> "map", v |-> << >>, m |-> <<Item("throttle", 1, TRUE)>>],
     [kind |-> "map", v |-> << >>, m |-> <<Item("ax_input", 0, FALSE)>>],
     [kind |-> "other", v |-> << >>, m |-> << >>]}

\* no controller is registered (line 251)
NoController == [kind |-> "nocontroller", v |-> << >>, m |-> << >>]

\* the request was a heartbeat probe
Heartbeat == [kind |-> "heartbeat", v |-> << >>, m |-> << >>]

\* vector = None
NoVector == [ok |-> FALSE, vec |-> << >>]

\* input_name_to_index.get(name): the index, or 0 for None
IndexOf(name) ==
    IF \E k \in 1..NInputs : InputNames[k] = name
    THEN CHOOSE k \in 1..NInputs : InputNames[k] = name
    ELSE 0

\* _build_input_vector: the zero vector with the known names overridden,
\* unknown names skipped; float(value) raises on a value that is no number
RECURSIVE build_input_vector(_, _)
build_input_vector(overrides, vec) ==
    IF overrides = << >> THEN [ok |-> TRUE, vec |-> vec]
    ELSE LET name == Head(overrides).name
             value == Head(overrides).value
         IN  IF IndexOf(name) = 0
             THEN build_input_vector(Tail(overrides), vec)
             ELSE IF ~Head(overrides).number THEN NoVector
             ELSE build_input_vector(Tail(overrides),
                                     [vec EXCEPT ![IndexOf(name)] = value])

\* _legacy_control_args: the overrides for the legacy names that
\* _resolve_input_name finds among the input names (none of the modelled
\* names contains another, so the substring match finds nothing more)
legacy_control_args(steer_angle, steer_rate, ax) ==
    (IF IndexOf("steering_wheel_angle_input") # 0
     THEN <<Item("steering_wheel_angle_input", steer_angle, TRUE)>>
     ELSE << >>)
    \o (IF IndexOf("steering_wheel_rate_input") # 0
        THEN <<Item("steering_wheel_rate_input", steer_rate, TRUE)>>
        ELSE << >>)
    \o (IF IndexOf("ax_input") # 0
        THEN <<Item("ax_input", ax, TRUE)>> ELSE << >>)

\* _format_control_output, and the except clause of line 256 around it:
\* an exception in the controller or in the formatting gives vector = None
format_control_output(out, md) ==
    IF out.kind = "map"
    THEN build_input_vector(out.m, zero_input_vector(md))
    ELSE IF out.kind = "seq"
    THEN IF Len(out.v) = Len(zero_input_vector(md))
         THEN [ok |-> TRUE, vec |-> out.v]
         ELSE IF Len(out.v) = 3
         THEN build_input_vector(
                  legacy_control_args(out.v[1], out.v[2], out.v[3]),
                  zero_input_vector(md))
         ELSE NoVector
    ELSE NoVector

---------------------------------------------------------------------------
(* The REQ socket.  A zmq socket is not thread-safe and the client has no  *)
(* lock around it: a send made while another thread has its exchange open  *)
(* is a data race.  Either libzmq sees the socket waiting for a reply and  *)
(* the send raises ZMQError (EFSM), or the message goes out as well.       *)

SendOutcomes(sock) == IF sock.waiting = {} THEN {"sent"} ELSE {"sent", "EFSM"}

\* admin_req.send(cmd) by thread r, which then blocks in admin_req.recv()
Sent(sock, r, cmd) ==
    [inflight |-> Append(sock.inflight, cmd),
     waiting |-> sock.waiting \cup {r},
     refused |-> sock.refused]

\* admin_req.send(cmd) raises ZMQError: the socket awaits a reply
Refused(sock) == [sock EXCEPT !.refused = TRUE]

\* the reply to the oldest request is received by thread r
Received(sock, r) ==
    [inflight |-> Tail(sock.inflight),
     waiting |-> sock.waiting \ {r},
     refused |-> sock.refused]

\* reply.success and reply.HasField("metadata") (line 85)
HasMetadata(sock, ok) == ok /\ Head(sock.inflight) = "GET_METADATA"

---------------------------------------------------------------------------
(* _control_responder_thread, from a received request on.  md, lcv and     *)
(* sock are the values of metadata, last_control_vector and admin_req      *)
(* reached so far in the round.                                            *)

AtLoop(t) == [control_threads EXCEPT ![t] = [pc |-> "loop", req |-> 0]]

Blocked(t, where, i) ==
    [control_threads EXCEPT ![t] = [pc |-> where, req |-> i]]

Taken(i) == [requests EXCEPT ![i].st = "taken"]

\* control_dealer.send(reply) with the vector vec, for request i
Replied(i, vec, o, lcv) ==
    [requests EXCEPT ![i] =
        [@ EXCEPT !.st = "handled", !.replies = Append(@, vec), !.out = o,
                  !.prev = last_sent, !.after = lcv]]

\* an exception reaches the except clause of line 269: the round ends
\* without a reply
Drop(t, i, md, lcv, sock) ==
    /\ requests' = [requests EXCEPT ![i].st = "handled"]
    /\ control_threads' = AtLoop(t)
    /\ metadata' = md /\ last_control_vector' = lcv /\ admin_req' = sock
    /\ UNCHANGED last_sent

\* lines 259-267: the vector of the reply, and the reply
Reply(t, i, o, md, lcv, sock) ==
    LET fmt == format_control_output(o, md)
        vector == IF fmt.ok THEN fmt.vec
                  ELSE IF lcv = << >> THEN zero_input_vector(md) ELSE lcv
    IN  /\ last_control_vector' = vector
        /\ requests' = Replied(i, vector, o, vector)
        /\ last_sent' = [some |-> TRUE, v |-> vector]
        /\ control_threads' = AtLoop(t)
        /\ metadata' = md /\ admin_req' = sock

\* lines 250-258: the controller is called, if there is one
ControllerPhase(t, i, md, lcv, sock) ==
    IF sync_controller
    THEN /\ control_threads' = Blocked(t, "controller", i)
         /\ requests' = Taken(i)
         /\ metadata' = md /\ last_control_vector' = lcv /\ admin_req' = sock
         /\ UNCHANGED last_sent
    ELSE Reply(t, i, NoController, md, lcv, sock)

\* line 249: _ensure_metadata() fetches the metadata when there is none
EnsurePhase(t, i, md, lcv, sock) ==
    IF md # 0 THEN ControllerPhase(t, i, md, lcv, sock)
    ELSE \E o \in SendOutcomes(sock) :
            IF o = "sent"
            THEN /\ control_threads' = Blocked(t, "ensure", i)
                 /\ requests' = Taken(i)
                 /\ admin_req' = Sent(sock, t, "GET_METADATA")
                 /\ metadata' = md /\ last_control_vector' = lcv
                 /\ UNCHANGED last_sent
            ELSE Drop(t, i, md, lcv, Refused(sock))

\* lines 237-249: the heartbeat probe is answered with the zero vector
AfterRefresh(t, i, md, lcv, sock) ==
    IF requests[i].tick = 0
    THEN /\ requests' = Replied(i, zero_input_vector(md), Heartbeat, lcv)
         /\ control_threads' = AtLoop(t)
         /\ metadata' = md /\ last_control_vector' = lcv /\ admin_req' = sock
         /\ UNCHANGED last_sent
    ELSE EnsurePhase(t, i, md, lcv, sock)

\* the request the DEALER socket delivers next: 0 when there is none
NextPending ==
    IF \E i \in 1..Len(requests) : requests[i].st = "pending"
    THEN CHOOSE i \in 1..Len(requests) :
            /\ requests[i].st = "pending"
            /\ \A j \in 1..(i - 1) : requests[j].st # "pending"
    ELSE 0

\* line 232
Mismatch(i) ==
    requests[i].ver # 0 /\ requests[i].ver # metadata_version(metadata)

\* lines 223-236: thread t receives a request; on a version mismatch it
\* calls refresh_metadata()
ResponderRecv(t) ==
    /\ t \in 1..Len(control_threads)
    /\ control_threads[t].pc = "loop"
    /\ running
    /\ NextPending # 0
    /\ IF Mismatch(NextPending)
       THEN \E o \in SendOutcomes(admin_req) :
               IF o = "sent"
               THEN /\ control_threads' = Blocked(t, "refresh", NextPending)
                    /\ requests' = Taken(NextPending)
                    /\ admin_req' = Sent(admin_req, t, "GET_METADATA")
                    /\ UNCHANGED <<metadata, last_control_vector, last_sent>>
               ELSE Drop(t, NextPending, metadata, last_control_vector,
                         Refused(admin_req))
       ELSE AfterRefresh(t, NextPending, metadata, last_control_vector,
                         admin_req)
    /\ UNCHANGED <<pathVars, running, control_dealer, sync_controller,
                   state_threads, main>>

\* lines 233-236: the recv of refresh_metadata() returns in thread t; a
\* reply without metadata raises RuntimeError, which is logged
RefreshReply(t, ok, v) ==
    /\ t \in admin_req.waiting /\ t # 0
    /\ control_threads[t].pc = "refresh"
    /\ IF HasMetadata(admin_req, ok)
       THEN AfterRefresh(t, control_threads[t].req, v, zero_input_vector(v),
                         Received(admin_req, t))
       ELSE AfterRefresh(t, control_threads[t].req, metadata,
                         last_control_vector, Received(admin_req, t))
    /\ UNCHANGED <<pathVars, running, control_dealer, sync_controller,
                   state_threads, main>>

\* line 249: the recv of _ensure_metadata() returns in thread t; here the
\* RuntimeError is not caught before line 269
EnsureReply(t, ok, v) ==
    /\ t \in admin_req.waiting /\ t # 0
    /\ control_threads[t].pc = "ensure"
    /\ IF HasMetadata(admin_req, ok)
       THEN ControllerPhase(t, control_threads[t].req, v,
                            zero_input_vector(v), Received(admin_req, t))
       ELSE Drop(t, control_threads[t].req, metadata, last_control_vector,
                 Received(admin_req, t))
    /\ UNCHANGED <<pathVars, running, control_dealer, sync_controller,
                   state_threads, main>>

\* lines 253-267: the controller returns out (or raises) in thread t
ControllerReturn(t, out) ==
    /\ t \in 1..Len(control_threads)
    /\ control_threads[t].pc = "controller"
    /\ Reply(t, control_threads[t].req, out, metadata, last_control_vector,
             admin_req)
    /\ UNCHANGED <<pathVars, running, control_dealer, sync_controller,
                   state_threads, main>>

\* line 223: the loop of thread t ends when running is False
ResponderExit(t) ==
    /\ t \in 1..Len(control_threads)
    /\ control_threads[t].pc = "loop"
    /\ ~running
    /\ control_threads' = [control_threads EXCEPT ![t].pc = "stopped"]
    /\ UNCHANGED <<pathVars, running, control_dealer, sync_controller,
                   metadata, last_control_vector, state_threads, main,
                   admin_req, requests, last_sent>>

---------------------------------------------------------------------------
(* _state_listener_thread                                                  *)

\* lines 196-210: a StateUpdate arrives and the callbacks are called
ListenerUpdate(t) ==
    /\ t \in 1..Len(state_threads)
    /\ state_threads[t] = "loop"
    /\ running
    /\ state_threads' = [state_threads EXCEPT ![t] = "callback"]
    /\ UNCHANGED <<pathVars, running, control_dealer, sync_controller,
                   metadata, last_control_vector, control_threads, main,
                   admin_req, requests, last_sent>>

\* the callbacks have returned
ListenerCallbacksDone(t) ==
    /\ t \in 1..Len(state_threads)
    /\ state_threads[t] = "callback"
    /\ state_threads' = [state_threads EXCEPT ![t] = "loop"]
    /\ UNCHANGED <<pathVars, running, control_dealer, sync_controller,
                   metadata, last_control_vector, control_threads, main,
                   admin_req, requests, last_sent>>

\* line 196: the loop ends when running is False
ListenerExit(t) ==
    /\ t \in 1..Len(state_threads)
    /\ state_threads[t] = "loop"
    /\ ~running
    /\ state_threads' = [state_threads EXCEPT ![t] = "stopped"]
    /\ UNCHANGED <<pathVars, running, control_dealer, sync_controller,
                   metadata, last_control_vector, control_threads, main,
                   admin_req, requests, last_sent>>

---------------------------------------------------------------------------
(* The caller's thread: register_sync_controller, start, stop and the      *)
(* admin commands.                                                         *)

\* lines 143-148
RegisterSyncController ==
    /\ main.pc = "idle"
    /\ sync_controller' = TRUE
    /\ control_dealer' = TRUE
    /\ UNCHANGED <<pathVars, running, metadata, last_control_vector,
                   state_threads, control_threads, main, admin_req,
                   requests, last_sent>>

\* start(): nothing when already running; else a listener thread and,
\* with a DEALER socket, a responder thread
Start ==
    /\ main.pc = "idle"
    /\ Len(state_threads) < MaxStarts
    /\ IF running
       THEN UNCHANGED <<running, state_threads, control_threads>>
       ELSE /\ running' = TRUE
            /\ state_threads' = Append(state_threads, "loop")
            /\ control_threads' =
                  IF control_dealer
                  THEN Append(control_threads, [pc |-> "loop", req |-> 0])
                  ELSE control_threads
    /\ UNCHANGED <<pathVars, control_dealer, sync_controller, metadata,
                   last_control_vector, main, admin_req, requests, last_sent>>

\* stop(), up to the first join: lines 297-304
Stop ==
    /\ main.pc = "idle"
    /\ IF ~running
       THEN UNCHANGED <<running, main>>
       ELSE /\ running' = FALSE
            /\ main' = [pc |-> IF state_thread # 0 THEN "join_state"
                               ELSE IF control_thread # 0 THEN "join_control"
                               ELSE "idle",
                        cmd |-> "stop"]
    /\ UNCHANGED <<pathVars, control_dealer, sync_controller, metadata,
                   last_control_vector, state_threads, control_threads,
                   admin_req, requests, last_sent>>

\* state_thread.join(timeout=1.0) returns: the thread has ended, or it is
\* still in a callback after 1 s
JoinState ==
    /\ main.pc = "join_state"
    /\ state_threads[state_thread] \in {"stopped", "callback"}
    /\ main' = [main EXCEPT !.pc = IF control_thread # 0 THEN "join_control"
                                   ELSE "idle"]
    /\ UNCHANGED <<pathVars, running, control_dealer, sync_controller,
                   metadata, last_control_vector, state_threads,
                   control_threads, admin_req, requests, last_sent>>

\* control_thread.join(timeout=1.0) returns: the thread has ended, or it
\* is still in the controller or in a recv on the REQ socket after 1 s
JoinControl ==
    /\ main.pc = "join_control"
    /\ control_threads[control_thread].pc \in
          {"stopped", "controller", "refresh", "ensure"}
    /\ main' = [main EXCEPT !.pc = "idle"]
    /\ UNCHANGED <<pathVars, running, control_dealer, sync_controller,
                   metadata, last_control_vector, state_threads,
                   control_threads, admin_req, requests, last_sent>>

\* the admin commands the caller issues: pause() and the like, and
\* refresh_metadata()
AdminCommands == {"PAUSE", "GET_METADATA"}

\* _send_admin_command, up to admin_req.recv(): lines 346-363; a ZMQError
\* of the send is raised to the caller
AdminSend(cmd) ==
    /\ main.pc = "idle"
    /\ \E o \in SendOutcomes(admin_req) :
          IF o = "sent"
          THEN /\ admin_req' = Sent(admin_req, 0, cmd)
               /\ main' = [pc |-> "admin", cmd |-> cmd]
          ELSE /\ admin_req' = Refused(admin_req)
               /\ UNCHANGED main
    /\ UNCHANGED <<pathVars, running, control_dealer, sync_controller,
                   metadata, last_control_vector, state_threads,
                   control_threads, requests, last_sent>>

\* lines 364-374, and lines 85-87 for refresh_metadata(): the recv of the
\* caller returns
AdminReply(ok, v) ==
    /\ 0 \in admin_req.waiting
    /\ main.pc = "admin"
    /\ admin_req' = Received(admin_req, 0)
    /\ main' = [main EXCEPT !.pc = "idle"]
    /\ IF main.cmd = "GET_METADATA" /\ HasMetadata(admin_req, ok)
       THEN /\ metadata' = v
            /\ last_control_vector' = zero_input_vector(v)
       ELSE UNCHANGED <<metadata, last_control_vector>>
    /\ UNCHANGED <<pathVars, running, control_dealer, sync_controller,
                   state_threads, control_threads, requests, last_sent>>

---------------------------------------------------------------------------
(* The simulator.                                                          *)

\* a ControlRequest is sent to the DEALER socket: tick 0 is the heartbeat
\* probe, ver is scene.metadata_version
SimRequest(tick, ver) ==
    /\ control_dealer
    /\ Len(requests) < MaxRequests
    /\ NextPending = 0
    /\ requests' = Append(requests,
          [tick |-> tick, ver |-> ver, st |-> "pending", replies |-> << >>,
           out |-> NoController, prev |-> last_sent, after |-> << >>])
    /\ UNCHANGED <<pathVars, running, control_dealer, sync_controller,
                   metadata, last_control_vector, state_threads,
                   control_threads, main, admin_req, last_sent>>

Versions == 1..MaxVer

Ticks == {0, 1}

\* the control responder and the admin commands of the caller
NextClient ==
    \/ RegisterSyncController
    \/ Start
    \/ \E cmd \in AdminCommands : AdminSend(cmd)
    \/ \E ok \in BOOLEAN, v \in Versions : AdminReply(ok, v)
    \/ \E t \in 1..Len(control_threads) : ResponderRecv(t)
    \/ \E t \in 1..Len(control_threads), ok \in BOOLEAN, v \in Versions :
          RefreshReply(t, ok, v)
    \/ \E t \in 1..Len(control_threads), ok \in BOOLEAN, v \in Versions :
          EnsureReply(t, ok, v)
    \/ \E t \in 1..Len(control_threads), out \in ControllerOutputs :
          ControllerReturn(t, out)
    \/ \E tick \in Ticks, ver \in 0..MaxVer : SimRequest(tick, ver)

\* a client next to a path that is not used
InitClient ==
    /\ points = << <<0, 0>> >>
    /\ min_grid = << >>
    /\ NewObject
    /\ IdleCall
    /\ IdlePathError
    /\ t2 = IdleLocal
    /\ NoQuery
    /\ NewClient

SpecClient == InitClient /\ [][NextClient]_vars

\* start and stop with the two loops running; the scenes carry no
\* metadata version, so that the responder makes no admin exchange
NextThreads ==
    \/ RegisterSyncController
    \/ Start
    \/ Stop
    \/ JoinState
    \/ JoinControl
    \/ \E t \in 1..Len(state_threads) : ListenerUpdate(t)
    \/ \E t \in 1..Len(state_threads) : ListenerCallbacksDone(t)
    \/ \E t \in 1..Len(state_threads) : ListenerExit(t)
    \/ \E t \in 1..Len(control_threads) : ResponderRecv(t)
    \/ \E t \in 1..Len(control_threads), out \in ControllerOutputs :
          ControllerReturn(t, out)
    \/ \E t \in 1..Len(control_threads) : ResponderExit(t)
    \/ \E tick \in Ticks : SimRequest(tick, 0)

\* a client that has fetched the metadata: connect(), refresh_metadata()
InitThreads ==
    /\ points = << <<0, 0>> >>
    /\ min_grid = << >>
    /\ NewObject
    /\ IdleCall
    /\ IdlePathError
    /\ t2 = IdleLocal
    /\ NoQuery
    /\ running = FALSE /\ control_dealer = FALSE /\ sync_controller = FALSE
    /\ metadata = 1 /\ last_control_vector = zero_input_vector(1)
    /\ state_threads = << >> /\ control_threads = << >>
    /\ main = [pc |-> "idle", cmd |-> "none"]
    /\ admin_req = [inflight |-> << >>, waiting |-> {}, refused |-> FALSE]
    /\ requests = << >>
    /\ last_sent = [some |-> FALSE, v |-> << >>]

SpecThreads == InitThreads /\ [][NextThreads]_vars

---------------------------------------------------------------------------
(* Properties of the control responder and of the REQ socket (checked      *)
(* under SpecClient) and of start and stop (checked under SpecThreads).    *)

\* the non-heartbeat requests whose round in the responder has ended
HandledRequests ==
    {i \in 1..Len(requests) :
        requests[i].st = "handled" /\ requests[i].tick # 0}

\* the controller returned a usable output for request i
Usable(i) ==
    format_control_output(requests[i].out, 1).ok

\* C28: for every non-heartbeat ControlRequest the responder sends exactly
\* one ControlReply: it carries the controller's formatted vector when the
\* controller returns a usable output, and that vector becomes the last
\* control vector; when there is no controller, the controller raises or
\* its output cannot be formatted, it carries the last control vector sent
\* earlier, or all zeros if none was sent.
C28_OneReplyPerRequest ==
    \A i \in HandledRequests :
        /\ Len(requests[i].replies) = 1
        /\ IF Usable(i)
           THEN /\ requests[i].replies[1] =
                       format_control_output(requests[i].out, 1).vec
                /\ requests[i].after = requests[i].replies[1]
           ELSE requests[i].replies[1] =
                    IF requests[i].prev.some THEN requests[i].prev.v
                    ELSE [k \in 1..NInputs |-> 0]

\* the threads that have not left their loop
LiveListeners ==
    {t \in 1..Len(state_threads) : state_threads[t] # "stopped"}

LiveResponders ==
    {t \in 1..Len(control_threads) : control_threads[t].pc # "stopped"}

\* C29: under any sequence of start(), stop() and
\* register_sync_controller() at most one state-listener thread and at
\* most one control-responder thread are running their loops at any time.
C29_OneThreadOfEachKind ==
    /\ Cardinality(LiveListeners) <= 1
    /\ Cardinality(LiveResponders) <= 1

\* C30: admin exchanges on the REQ socket never interleave: while one
\* thread is between its send and its recv, no other thread sends on the
\* socket, be the send refused or not.
C30_AdminExchangesSerial ==
    /\ Len(admin_req.inflight) <= 1
    /\ Cardinality(admin_req.waiting) <= 1
    /\ ~admin_req.refused

=============================================================================
